---- MODULE Spec2Model ----
(***************************************************************************)
(* Scheduler.Schedule of pkg/epp/scheduling/scheduler.go as a state        *)
(* machine.  One Schedule call is a process that moves between the plugin  *)
(* calls it makes: ProfileHandler.Pick, SchedulerProfile.Run and           *)
(* ProfileHandler.ProcessResults.  The plugins are external: what they     *)
(* return is drawn from the sets below.                                    *)
(***************************************************************************)
EXTENDS Integers, Sequences, FiniteSets, TLC

\* ---- bounds ----
NumCalls == 2      \* Schedule calls made on the one Scheduler
MaxRounds == 2     \* non-empty waves a handler may ask for in one call
ConcRounds == 2    \* non-empty waves of two concurrent calls, taken together

Calls == 1..NumCalls

\* request.RequestId: correlation ids, one per call that can be made
RequestIds == Calls

\* s.profiles: the configured profile-name -> profile mapping (its names)
Profiles == {"p1", "p2"}

Pods == {"A"}

\* candidatePods: the caller's list, possibly empty
CandidateLists == {<<>>} \cup {<<p>> : p \in Pods}

\* ---- values ----
Nil == [nil |-> TRUE]
NoErr == [kind |-> "none"]
NoObj == 0

\* a *types.ProfileRunResult that is not nil: a selected pod, possibly none
ProfileRunResults == {[targetPod |-> t] : t \in Pods \cup {"none"}}

\* what profile.Run returns: (nil, error) when the profile failed to run,
\* (result, nil) otherwise
RunReturns ==
  {[res |-> Nil, err |-> [kind |-> "RunFailed"]]}
    \cup {[res |-> r, err |-> NoErr] : r \in ProfileRunResults}

\* what profileHandler.Pick returns: a set of profile names to run
PickReturns == SUBSET Profiles

\* what fmt.Errorf builds at the "nothing ran" return
NoProfilesRunNoId(rid) == [kind |-> "NoProfilesRun"]
NoProfilesRunError(rid) == [kind |-> "NoProfilesRun", requestId |-> rid]

\* errors a handler's ProcessResults may return; the context's error only
\* once the context is cancelled
HandlerErrors(isCancelled) ==
  {NoErr, [kind |-> "ProcessResults"]}
    \cup (IF isCancelled THEN {[kind |-> "ContextCanceled"]} ELSE {})

\* what profileHandler.ProcessResults returns: any (result, error) pair
ProcessReturns(results, isCancelled) ==
  [result : {Nil} \cup {[targetPod |-> t, profileResults |-> results] :
                           t \in Pods \cup {"none"}},
   err : HandlerErrors(isCancelled)]

\* ---- maps ----
EmptyMap == [k \in {} |-> Nil]
Put(m, k, v) == [x \in (DOMAIN m) \cup {k} |-> IF x = k THEN v ELSE m[x]]

\* ---- the steps of Schedule that a plausible slip would change ----
\* types.NewCycleState(): a new object for every call
SharedCycleState(c) == 1
NewCycleState(c) == c

\* map[string]*types.ProfileRunResult{}: a new map for every call
SharedResultsMap(c) == 1
NewResultsMap(c) == c

\* for name, profile := range profiles: the wave is what Pick selected
AllProfiles(sel) == Profiles
SelectedProfiles(sel) == sel

\* profileRunResults[name] = profileRunResult, whatever err is
RecordFresh(m, name, r) == Put(EmptyMap, name, r.res)
RecordOnlySuccess(m, name, r) == IF r.err # NoErr THEN m ELSE Put(m, name, r.res)
RecordResult(m, name, r) == Put(m, name, r.res)

\* the range loop goes on to the remaining profiles, whatever err is
RetryOnError(remaining, name, r) ==
  IF r.err # NoErr THEN remaining ELSE remaining \ {name}
AbortWaveOnError(remaining, name, r) ==
  IF r.err # NoErr THEN {} ELSE remaining \ {name}
RestOfWave(remaining, name, r) == remaining \ {name}

\* if len(profiles) == 0 { break }: only an empty selection leaves the loop
NeverBreak(sel, m) == FALSE
BreakWhenNothingNew(sel, m) == sel \subseteq DOMAIN m
BreakWhenEmpty(sel, m) == sel = {}

\* after a Run the range loop takes the next profile; Pick is called again
\* only when the range is exhausted
PickEarly(remaining) == "pick"
NextAfterRun(remaining) == IF remaining = {} THEN "pick" ELSE "wave"

\* cycleState is handed on as it is: Schedule never writes to it
ResetCycleState(cs) == EmptyMap
KeepCycleState(cs) == cs

\* profile.Run(ctx, request, cycleState, candidatePods): the caller's list
WithoutFirstPod(pods) == IF pods = <<>> THEN pods ELSE Tail(pods)
PodsForRun(pods) == pods

\* profile.Run is a plain call: the loop waits for it to return
LaunchAll(remaining, name) == remaining
Launch(remaining, name) == {name}

\* span.SetAttributes at the start of Schedule
SpanStart(rid, pods) ==
  [a \in {"gateway.scheduler.candidate_pods", "gateway.request.id"} |->
     IF a = "gateway.request.id" THEN <<"id", rid>> ELSE <<"int", Len(pods)>>]

\* span.SetAttributes after ProcessResults
SpanOutcome(span, pr) ==
  IF pr.result # Nil /\ pr.result.targetPod # "none"
    THEN [a \in (DOMAIN span) \cup {"gateway.scheduler.result",
                                     "gateway.target_pod.name",
                                     "gateway.target_pod.namespace"} |->
            IF a = "gateway.scheduler.result" THEN <<"str", "scheduled">>
            ELSE IF a = "gateway.target_pod.name"
                   THEN <<"name", pr.result.targetPod>>
            ELSE IF a = "gateway.target_pod.namespace"
                   THEN <<"namespace", pr.result.targetPod>>
            ELSE span[a]]
    ELSE IF pr.err # NoErr
           THEN [a \in (DOMAIN span) \cup {"gateway.scheduler.result"} |->
                   IF a = "gateway.scheduler.result" THEN <<"str", "failed">>
                   ELSE span[a]]
           ELSE span

\* len(profileRunResults) == 0
NoUsableResult(m) == \A k \in DOMAIN m : m[k] = Nil
NoProfilesRan(m) == DOMAIN m = {}

\* return nil, fmt.Errorf(...)
FailWithPartial(rid, m) ==
  [result |-> [targetPod |-> "none", profileResults |-> m],
   err |-> NoProfilesRunError(rid)]
FailNoProfilesRun(rid, m) == [result |-> Nil, err |-> NoProfilesRunError(rid)]

\* return result, err
ReturnErrorOnly(pr) ==
  IF pr.err # NoErr THEN [result |-> Nil, err |-> pr.err] ELSE pr
ReturnVerbatim(pr) == pr

VARIABLES
  pending,       \* calls the caller has not made yet
  pc,            \* where each call stands
  request,       \* request.RequestId of each call
  cancelled,     \* ctx of the call is done
  cycleState,    \* the call's local cycleState: an object
  resultsRef,    \* the call's local profileRunResults: an object
  csStore,       \* the cycle state objects: key -> request that wrote it
  resStore,      \* the result map objects: profile name -> run result
  todo,          \* the profiles of the wave the range loop has not reached
  ret,           \* what Schedule returned
  \* history of the plugin calls made on behalf of each call
  waves,         \* what each Pick returned, in order
  pickSaw,       \* the results collection the latest Pick was given
  ranInWave,     \* the profiles Run in the current wave
  runs,          \* number of Runs per profile
  runOrder,      \* the profiles Run, in the order of their Runs
  lastRun,       \* what the latest Run of each profile returned
  procCalls,     \* number of ProcessResults calls
  procArg,       \* the results collection ProcessResults was given
  procRet,       \* what ProcessResults returned
  seenCS,        \* the cycle state objects given to the call's plugins
  seenRes,       \* the result map objects given to the call's plugins
  afterCancel,   \* plugin calls started after ctx was done
  plug,          \* the configured plugins, where they are deterministic
  profiles,      \* s.profiles: the names of the configured profiles
  candidatePods, \* the candidatePods argument of each call
  span,          \* the attributes set on the call's trace span
  inflight,      \* the plugin calls of each call that have not returned
  lastPlugin,    \* the plugin call of each call that returned last
  pickArgs,      \* the profile mappings given to the call's Picks
  runArgs        \* the (request, candidatePods) given to the call's Runs

vars == <<pending, pc, request, cancelled, cycleState, resultsRef, csStore,
          resStore, todo, ret, waves, pickSaw, ranInWave, runs, runOrder,
          lastRun, procCalls, procArg, procRet, seenCS, seenRes, afterCancel,
          plug, profiles, candidatePods, span, inflight, lastPlugin, pickArgs,
          runArgs>>

NotRun == [notRun |-> TRUE]
NoRet == [none |-> TRUE]
NoPlug == [none |-> TRUE]

InitCalls(callers, cfg) ==
  /\ pending = callers
  /\ pc = [c \in Calls |-> "idle"]
  /\ request = [c \in Calls |-> NoObj]
  /\ cancelled = [c \in Calls |-> FALSE]
  /\ cycleState = [c \in Calls |-> NoObj]
  /\ resultsRef = [c \in Calls |-> NoObj]
  /\ csStore = [o \in Calls |-> EmptyMap]
  /\ resStore = [o \in Calls |-> EmptyMap]
  /\ todo = [c \in Calls |-> {}]
  /\ ret = [c \in Calls |-> NoRet]
  /\ waves = [c \in Calls |-> <<>>]
  /\ pickSaw = [c \in Calls |-> EmptyMap]
  /\ ranInWave = [c \in Calls |-> {}]
  /\ runs = [c \in Calls |-> [p \in Profiles |-> 0]]
  /\ runOrder = [c \in Calls |-> <<>>]
  /\ lastRun = [c \in Calls |-> [p \in Profiles |-> NotRun]]
  /\ procCalls = [c \in Calls |-> 0]
  /\ procArg = [c \in Calls |-> EmptyMap]
  /\ procRet = [c \in Calls |-> NoRet]
  /\ seenCS = [c \in Calls |-> {}]
  /\ seenRes = [c \in Calls |-> {}]
  /\ afterCancel = [c \in Calls |-> 0]
  /\ plug = cfg
  /\ profiles = Profiles
  /\ candidatePods = [c \in Calls |-> <<>>]
  /\ span = [c \in Calls |-> EmptyMap]
  /\ inflight = [c \in Calls |-> {}]
  /\ lastPlugin = [c \in Calls |-> "none"]
  /\ pickArgs = [c \in Calls |-> {}]
  /\ runArgs = [c \in Calls |-> {}]

\* one caller, one call
Init == InitCalls({1}, NoPlug)

\* number of plugin calls started while ctx is done
Late(c) == IF cancelled[c] THEN afterCancel[c] + 1 ELSE afterCancel[c]

NonEmptyWaves(c) == {i \in 1..Len(waves[c]) : waves[c][i] # {}}

\* Schedule up to the loop: the span, the results map, the cycle state
StartStep(c, rid, pods) ==
  /\ c \in pending
  /\ request' = [request EXCEPT ![c] = rid]
  /\ candidatePods' = [candidatePods EXCEPT ![c] = pods]
  /\ span' = [span EXCEPT ![c] = SpanStart(rid, pods)]
  /\ pending' = pending \ {c}
  /\ pc' = [pc EXCEPT ![c] = "pick"]
  /\ resultsRef' = [resultsRef EXCEPT ![c] = NewResultsMap(c)]
  /\ cycleState' = [cycleState EXCEPT ![c] = NewCycleState(c)]
  /\ resStore' = [resStore EXCEPT ![NewResultsMap(c)] = EmptyMap]
  /\ csStore' = [csStore EXCEPT ![NewCycleState(c)] = EmptyMap]
  /\ UNCHANGED <<cancelled, todo, ret, waves, pickSaw, ranInWave, runs,
                 runOrder, lastRun, procCalls, procArg, procRet, seenCS, seenRes,
                 afterCancel, plug, profiles, inflight, lastPlugin, pickArgs,
                 runArgs>>

\* the top of the loop: Pick returns sel; an empty sel leaves the loop, and
\* then either nothing ran at all or ProcessResults is next
PickStep(c, sel) ==
  /\ pc[c] = "pick"
  /\ waves' = [waves EXCEPT ![c] = Append(@, sel)]
  /\ pickSaw' = [pickSaw EXCEPT ![c] = resStore[resultsRef[c]]]
  /\ seenCS' = [seenCS EXCEPT ![c] = @ \cup {cycleState[c]}]
  /\ seenRes' = [seenRes EXCEPT ![c] = @ \cup {resultsRef[c]}]
  /\ afterCancel' = [afterCancel EXCEPT ![c] = Late(c)]
  /\ pickArgs' = [pickArgs EXCEPT ![c] = @ \cup {profiles}]
  /\ csStore' = [csStore EXCEPT ![cycleState[c]] = KeepCycleState(@)]
  /\ inflight' = [inflight EXCEPT ![c] = @ \ {"Pick"}]
  /\ lastPlugin' = [lastPlugin EXCEPT ![c] = "Pick"]
  /\ IF ~BreakWhenEmpty(sel, resStore[resultsRef[c]])
       THEN /\ pc' = [pc EXCEPT ![c] = "wave"]
            /\ todo' = [todo EXCEPT ![c] = SelectedProfiles(sel)]
            /\ ranInWave' = [ranInWave EXCEPT ![c] = {}]
            /\ ret' = ret
       ELSE /\ UNCHANGED <<todo, ranInWave>>
            /\ IF NoProfilesRan(resStore[resultsRef[c]])
                 THEN /\ pc' = [pc EXCEPT ![c] = "done"]
                      /\ ret' = [ret EXCEPT ![c] =
                           FailNoProfilesRun(request[c], resStore[resultsRef[c]])]
                 ELSE /\ pc' = [pc EXCEPT ![c] = "process"]
                      /\ ret' = ret
  /\ UNCHANGED <<pending, request, cancelled, cycleState, resultsRef,
                 resStore, runs, runOrder, lastRun, procCalls, procArg, procRet,
                 plug, profiles, candidatePods, span, runArgs>>

\* one iteration of the range loop: profile name is Run, returns r, and its
\* plugins wrote to the cycle state or not; the result is recorded
RunStep(c, name, r, wrote) ==
  /\ pc[c] = "wave"
  /\ name \in todo[c]
  /\ csStore' = IF wrote
                  THEN [csStore EXCEPT ![cycleState[c]] = Put(@, name, request[c])]
                  ELSE csStore
  /\ resStore' = [resStore EXCEPT ![resultsRef[c]] = RecordResult(@, name, r)]
  /\ todo' = [todo EXCEPT ![c] = RestOfWave(@, name, r)]
  /\ pc' = [pc EXCEPT ![c] = NextAfterRun(RestOfWave(todo[c], name, r))]
  /\ runArgs' = [runArgs EXCEPT ![c] =
                   @ \cup {[request |-> request[c],
                            pods |-> PodsForRun(candidatePods[c])]}]
  /\ inflight' = [inflight EXCEPT ![c] = @ \ {name}]
  /\ lastPlugin' = [lastPlugin EXCEPT ![c] = "Run"]
  /\ ranInWave' = [ranInWave EXCEPT ![c] = @ \cup {name}]
  /\ runs' = [runs EXCEPT ![c][name] = @ + 1]
  /\ runOrder' = [runOrder EXCEPT ![c] = Append(@, name)]
  /\ lastRun' = [lastRun EXCEPT ![c][name] = r]
  /\ seenCS' = [seenCS EXCEPT ![c] = @ \cup {cycleState[c]}]
  /\ afterCancel' = [afterCancel EXCEPT ![c] = Late(c)]
  /\ UNCHANGED <<pending, request, cancelled, cycleState, resultsRef, ret,
                 waves, pickSaw, procCalls, procArg, procRet, seenRes, plug,
                 profiles, candidatePods, span, pickArgs>>

\* ProcessResults returns pr; Schedule returns it
ProcessStep(c, pr) ==
  /\ pc[c] = "process"
  /\ procCalls' = [procCalls EXCEPT ![c] = @ + 1]
  /\ procArg' = [procArg EXCEPT ![c] = resStore[resultsRef[c]]]
  /\ procRet' = [procRet EXCEPT ![c] = pr]
  /\ seenCS' = [seenCS EXCEPT ![c] = @ \cup {cycleState[c]}]
  /\ seenRes' = [seenRes EXCEPT ![c] = @ \cup {resultsRef[c]}]
  /\ afterCancel' = [afterCancel EXCEPT ![c] = Late(c)]
  /\ span' = [span EXCEPT ![c] = SpanOutcome(@, pr)]
  /\ inflight' = [inflight EXCEPT ![c] = @ \ {"ProcessResults"}]
  /\ lastPlugin' = [lastPlugin EXCEPT ![c] = "ProcessResults"]
  /\ ret' = [ret EXCEPT ![c] = ReturnVerbatim(pr)]
  /\ pc' = [pc EXCEPT ![c] = "done"]
  /\ UNCHANGED <<pending, request, cancelled, cycleState, resultsRef, csStore,
                 resStore, todo, waves, pickSaw, ranInWave, runs, runOrder,
                 lastRun, plug, profiles, candidatePods, pickArgs, runArgs>>

\* ---- the caller's requests and the external, nondeterministic plugins ----
Start(c) ==
  \E rid \in RequestIds, pods \in CandidateLists : StartStep(c, rid, pods)

PickBounded(c, cap) ==
  /\ pc[c] = "pick"
  /\ \E sel \in PickReturns :
       /\ sel # {} => cap > 0
       /\ PickStep(c, sel)

Pick(c) == PickBounded(c, MaxRounds - Cardinality(NonEmptyWaves(c)))

Run(c) ==
  /\ pc[c] = "wave"
  /\ \E name \in todo[c], r \in RunReturns, wrote \in BOOLEAN :
       RunStep(c, name, r, wrote)

ProcessResults(c) ==
  /\ pc[c] = "process"
  /\ \E pr \in ProcessReturns(resStore[resultsRef[c]], cancelled[c]) :
       ProcessStep(c, pr)

Next ==
  \E c \in Calls :
    \/ Start(c)
    \/ Pick(c)
    \/ Run(c)
    \/ ProcessResults(c)

Spec == Init /\ [][Next]_vars

\* ---- cancellation: the caller's ctx becomes done while the call runs ----
\* Schedule hands ctx to the plugins and never reads ctx.Done() or ctx.Err()
Cancel(c) ==
  /\ pc[c] \in {"pick", "wave", "process"}
  /\ ~cancelled[c]
  /\ cancelled' = [cancelled EXCEPT ![c] = TRUE]
  /\ UNCHANGED <<pending, pc, request, cycleState, resultsRef, csStore,
                 resStore, todo, ret, waves, pickSaw, ranInWave, runs, runOrder,
                 lastRun, procCalls, procArg, procRet, seenCS, seenRes, afterCancel,
                 plug, profiles, candidatePods, span, inflight, lastPlugin,
                 pickArgs, runArgs>>

NextCancel ==
  \E c \in Calls :
    \/ Start(c)
    \/ Pick(c)
    \/ Run(c)
    \/ ProcessResults(c)
    \/ Cancel(c)

SpecCancel == Init /\ [][NextCancel]_vars

\* ---- plugin calls as a call and a return ----
\* Each plugin call is a plain, blocking call of the goroutine that runs
\* Schedule: the next statement is reached when the call has returned.
BeginCall(c, calls) ==
  /\ inflight[c] = {}
  /\ inflight' = [inflight EXCEPT ![c] = calls]
  /\ UNCHANGED <<pending, pc, request, cancelled, cycleState, resultsRef,
                 csStore, resStore, todo, ret, waves, pickSaw, ranInWave, runs,
                 runOrder, lastRun, procCalls, procArg, procRet, seenCS,
                 seenRes, afterCancel, plug, profiles, candidatePods, span,
                 lastPlugin, pickArgs, runArgs>>

BeginPick(c) ==
  /\ pc[c] = "pick"
  /\ BeginCall(c, {"Pick"})

BeginRun(c) ==
  /\ pc[c] = "wave"
  /\ \E name \in todo[c] : BeginCall(c, Launch(todo[c], name))

BeginProcessResults(c) ==
  /\ pc[c] = "process"
  /\ BeginCall(c, {"ProcessResults"})

ReturnPick(c) ==
  /\ "Pick" \in inflight[c]
  /\ Pick(c)

ReturnRun(c) ==
  /\ pc[c] = "wave"
  /\ \E name \in inflight[c] \cap todo[c], r \in RunReturns, wrote \in BOOLEAN :
       RunStep(c, name, r, wrote)

ReturnProcessResults(c) ==
  /\ "ProcessResults" \in inflight[c]
  /\ ProcessResults(c)

NextSeq ==
  \E c \in Calls :
    \/ Start(c)
    \/ BeginPick(c)
    \/ ReturnPick(c)
    \/ BeginRun(c)
    \/ ReturnRun(c)
    \/ BeginProcessResults(c)
    \/ ReturnProcessResults(c)

SpecSeq == Init /\ [][NextSeq]_vars

\* ---- every plugin call returns and the goroutine keeps running ----
SpecLive == Init /\ [][Next]_vars /\ WF_vars(Next)

\* ---- two calls at the same time, for distinct requests ----
ConcCallers == {1, 2}

InitConc == InitCalls(ConcCallers, NoPlug)

StartConc(c) == StartStep(c, c, <<"A">>)

WavesOfAll ==
  Cardinality({w \in Calls \X (1..ConcRounds) :
                 w[2] <= Len(waves[w[1]]) /\ waves[w[1]][w[2]] # {}})

PickConc(c) == PickBounded(c, ConcRounds - WavesOfAll)

\* every Run writes to the cycle state it is given
RunConc(c) ==
  /\ pc[c] = "wave"
  /\ \E name \in todo[c], r \in RunReturns : RunStep(c, name, r, TRUE)

NextConc ==
  \E c \in Calls :
    \/ StartConc(c)
    \/ PickConc(c)
    \/ RunConc(c)
    \/ ProcessResults(c)

SpecConc == InitConc /\ [][NextConc]_vars

\* ---- what the claims speak of ----
Done(c) == pc[c] = "done"
Results(c) == resStore[resultsRef[c]]
LastPick(c) == waves[c][Len(waves[c])]
LastWave(c) ==
  LET n == CHOOSE i \in NonEmptyWaves(c) : \A j \in NonEmptyWaves(c) : j <= i
  IN waves[c][n]
HasRun(c, p) == lastRun[c][p] # NotRun
Failed(c) == {p \in Profiles : HasRun(c, p) /\ lastRun[c][p].err # NoErr}
Succeeded(c) == {p \in Profiles : HasRun(c, p) /\ lastRun[c][p].err = NoErr}
\* a Pick was made after the latest Run of p
PickedSince(c, p) ==
  \/ p \notin ranInWave[c]
  \/ (Len(waves[c]) > 0 /\ LastPick(c) = {})
IsNoProfilesRun(e) == e.kind = "NoProfilesRun"

\* C1: when the first Pick of a call returns an empty selection, Schedule
\* has returned (nil, NoProfilesRun error carrying the request id), no
\* profile was Run and ProcessResults was not invoked.
C1_EmptyFirstPick ==
  \A c \in Calls :
    (Len(waves[c]) >= 1 /\ waves[c][1] = {}) =>
      /\ Done(c)
      /\ ret[c].result = Nil
      /\ ret[c].err = [kind |-> "NoProfilesRun", requestId |-> request[c]]
      /\ \A p \in Profiles : runs[c][p] = 0
      /\ procCalls[c] = 0
      /\ Len(waves[c]) = 1

C1_Witness ==
  \E c \in Calls : Done(c) /\ waves[c] = <<{}>> /\ request[c] = 2

\* C2: a failed Run aborts neither the wave nor the loop: once a wave is
\* over, every profile selected for it was Run and has an entry; the call
\* leaves the loop only through a later, empty Pick; and what Schedule
\* returns after any Run is what ProcessResults returned, never the Run's
\* error.
C2_RunErrorIsolated ==
  \A c \in Calls :
    /\ (pc[c] # "wave" /\ NonEmptyWaves(c) # {}) =>
         /\ ranInWave[c] = LastWave(c)
         /\ LastWave(c) \subseteq DOMAIN Results(c)
    /\ pc[c] = "wave" => todo[c] = LastWave(c) \ ranInWave[c]
    /\ pc[c] \in {"process", "done"} => LastPick(c) = {}
    /\ (Done(c) /\ Failed(c) # {}) =>
         /\ procCalls[c] = 1
         /\ ret[c] = procRet[c]

C2_Witness ==
  \E c \in Calls :
    /\ Done(c)
    /\ Len(waves[c]) = 3
    /\ waves[c][1] = Profiles
    /\ lastRun[c]["p1"].err # NoErr
    /\ lastRun[c]["p2"].err = NoErr
    /\ Results(c)["p2"] # Nil
    /\ ret[c].err = NoErr

\* C3: a profile whose latest Run returned an error has a nil entry, which
\* is not the entry of a profile that ran and selected no pod; and the
\* results collection given to the latest Pick made since then holds that
\* nil entry.
C3_FailedRunIsNil ==
  \A c \in Calls :
    /\ \A p \in Failed(c) :
         /\ p \in DOMAIN Results(c)
         /\ Results(c)[p] = Nil
         /\ PickedSince(c, p) =>
              (p \in DOMAIN pickSaw[c] /\ pickSaw[c][p] = Nil)
    /\ \A p \in Succeeded(c) :
         /\ p \in DOMAIN Results(c)
         /\ Results(c)[p] # Nil
         /\ Results(c)[p] = lastRun[c][p].res

C3_Witness ==
  \E c \in Calls :
    /\ pc[c] = "wave"
    /\ "p1" \in Failed(c)
    /\ "p1" \notin ranInWave[c]
    /\ "p1" \in DOMAIN pickSaw[c]
    /\ pickSaw[c]["p1"] = Nil
    /\ "p2" \in Succeeded(c)
    /\ Results(c)["p2"] = [targetPod |-> "none"]

\* C4: when the loop ends with a non-empty results collection,
\* ProcessResults is invoked exactly once, after the last (empty) Pick and
\* with the accumulated collection, and Schedule returns the very pair
\* ProcessResults returned.
C4_ProcessResultsVerbatim ==
  \A c \in Calls :
    /\ procCalls[c] <= 1
    /\ pc[c] = "process" =>
         (procCalls[c] = 0 /\ LastPick(c) = {} /\ DOMAIN Results(c) # {})
    /\ (Done(c) /\ DOMAIN Results(c) # {}) =>
         /\ procCalls[c] = 1
         /\ LastPick(c) = {}
         /\ procArg[c] = Results(c)
         /\ ret[c] = procRet[c]

C4_Witness ==
  \E c \in Calls :
    /\ Done(c)
    /\ procCalls[c] = 1
    /\ DOMAIN procArg[c] = Profiles
    /\ ret[c].result = Nil
    /\ ret[c].err = [kind |-> "ProcessResults"]

\* C5: Schedule fails with NoProfilesRun exactly when the results
\* collection is empty at the end of the loop; when some profile was
\* selected, even if every Run failed, ProcessResults is invoked with the
\* collection holding the nil entries.
C5_OnlyEmptyFails ==
  \A c \in Calls :
    Done(c) =>
      /\ IsNoProfilesRun(ret[c].err) <=> DOMAIN Results(c) = {}
      /\ IsNoProfilesRun(ret[c].err) <=> NonEmptyWaves(c) = {}
      /\ NonEmptyWaves(c) # {} =>
           /\ procCalls[c] = 1
           /\ procArg[c] = Results(c)
           /\ \A p \in Failed(c) : procArg[c][p] = Nil

C5_Witness ==
  \E c \in Calls :
    /\ Done(c)
    /\ waves[c] = <<{"p1"}, {}>>
    /\ Failed(c) = {"p1"}
    /\ procArg[c] = [p \in {"p1"} |-> Nil]
    /\ ~IsNoProfilesRun(ret[c].err)

\* C6 as stated: Schedule never returns a result together with an error.
C6_NeverResultAndError ==
  \A c \in Calls :
    Done(c) => ~(ret[c].result # Nil /\ ret[c].err # NoErr)

\* C6: Schedule returns a result together with an error only when
\* ProcessResults returned that very pair; the NoProfilesRun failure
\* carries no result.
C6_ResultAndErrorOnlyFromHandler ==
  \A c \in Calls :
    (Done(c) /\ ret[c].result # Nil /\ ret[c].err # NoErr) =>
      /\ procCalls[c] = 1
      /\ procRet[c] = ret[c]
      /\ ~IsNoProfilesRun(ret[c].err)

C6_Witness ==
  \E c \in Calls :
    /\ Done(c)
    /\ ret[c].result # Nil
    /\ ret[c].err # NoErr
    /\ procRet[c] = ret[c]

\* C7 as stated: once ctx is done, Schedule invokes no further Pick, Run
\* or ProcessResults, and it returns a cancellation error that is neither
\* NoProfilesRun nor a ProcessResults failure.
C7_CancellationHonored ==
  \A c \in Calls :
    /\ afterCancel[c] = 0
    /\ (Done(c) /\ cancelled[c]) =>
         (ret[c].result = Nil /\ ret[c].err = [kind |-> "ContextCanceled"])

\* C10: when Pick selected exactly one profile exactly once, that profile
\* was Run once, no other profile was Run, and ProcessResults was given
\* exactly one entry: that profile's name with the output of that Run.
C10_SingleProfile ==
  \A c \in Calls : \A p \in Profiles :
    (pc[c] \in {"process", "done"} /\ waves[c] = <<{p}, {}>>) =>
      /\ runs[c][p] = 1
      /\ \A q \in Profiles \ {p} : runs[c][q] = 0 /\ ~HasRun(c, q)
      /\ DOMAIN Results(c) = {p}
      /\ Done(c) =>
           /\ procCalls[c] = 1
           /\ DOMAIN procArg[c] = {p}
           /\ procArg[c][p] = lastRun[c][p].res

C10_Witness ==
  \E c \in Calls :
    /\ Done(c)
    /\ waves[c] = <<{"p2"}, {}>>
    /\ procArg[c] = [p \in {"p2"} |-> [targetPod |-> "A"]]
    /\ ret[c].result = [targetPod |-> "A", profileResults |-> procArg[c]]
    /\ ret[c].err = NoErr

Started(c) == pc[c] # "idle"

\* C9: calls in progress at the same time each have their own cycle state
\* and results collection; every plugin call made for a call is given that
\* call's objects only, the cycle state of a call holds only what plugins
\* wrote for its request, and a call's results collection holds exactly
\* what its own Runs returned.
C9_Isolation ==
  \A c \in Calls :
    Started(c) =>
      /\ cycleState[c] # NoObj
      /\ resultsRef[c] # NoObj
      /\ \A d \in Calls \ {c} :
           Started(d) =>
             /\ cycleState[c] # cycleState[d]
             /\ resultsRef[c] # resultsRef[d]
      /\ seenCS[c] \subseteq {cycleState[c]}
      /\ seenRes[c] \subseteq {resultsRef[c]}
      /\ \A k \in DOMAIN csStore[cycleState[c]] :
           csStore[cycleState[c]][k] = request[c]
      /\ DOMAIN Results(c) = {p \in Profiles : HasRun(c, p)}
      /\ \A p \in DOMAIN Results(c) : Results(c)[p] = lastRun[c][p].res
      /\ Done(c) =>
           \/ ret[c] = procRet[c]
           \/ (procCalls[c] = 0 /\ ret[c] = FailNoProfilesRun(request[c], EmptyMap))

\* one call has failed for good while the other, which ran at the same
\* time and wrote to its cycle state, succeeds
C9_Witness ==
  /\ Done(1)
  /\ IsNoProfilesRun(ret[1].err)
  /\ Done(2)
  /\ ret[2].err = NoErr
  /\ ret[2].result # Nil
  /\ DOMAIN csStore[cycleState[2]] # {}
  /\ seenCS[1] = {1}
  /\ seenCS[2] = {2}

\* ---- repeated calls with deterministic plugins ----
\* A handler whose Pick is a function of the names that have an entry and
\* never selects a profile twice; profiles whose Run is a function of
\* whether another profile has written to the cycle state, and that write
\* their own key or not.
DetHandlers ==
  {h \in [SUBSET Profiles -> SUBSET Profiles] :
     \A d \in SUBSET Profiles : h[d] \cap d = {}}

DetPlugins ==
  [pick : DetHandlers,
   out : [Profiles -> [BOOLEAN -> RunReturns]],
   writes : [Profiles -> BOOLEAN]]

\* first usable pod over all entries; an error when no entry is usable
DetProcessResults(results) ==
  IF \A k \in DOMAIN results : results[k] = Nil
    THEN [result |-> Nil, err |-> [kind |-> "ProcessResults"]]
    ELSE [result |->
            [targetPod |->
               IF \E k \in DOMAIN results :
                    results[k] # Nil /\ results[k].targetPod \in Pods
                 THEN CHOOSE t \in Pods :
                        \E k \in DOMAIN results :
                          results[k] # Nil /\ results[k].targetPod = t
                 ELSE "none",
             profileResults |-> results],
          err |-> NoErr]

OthersWrote(c, name) == (DOMAIN csStore[cycleState[c]]) \ {name} # {}

InitDet == \E cfg \in DetPlugins : InitCalls(Calls, cfg)

\* the same request again, once the call before has returned
StartDet(c) ==
  /\ \A d \in Calls : d < c => Done(d)
  /\ StartStep(c, 1, <<"A">>)

PickDet(c) ==
  /\ pc[c] = "pick"
  /\ PickStep(c, plug.pick[DOMAIN Results(c)])

\* the order of the range loop is Go's map order: any
RunDet(c) ==
  /\ pc[c] = "wave"
  /\ \E name \in todo[c] :
       RunStep(c, name, plug.out[name][OthersWrote(c, name)], plug.writes[name])

ProcessDet(c) ==
  /\ pc[c] = "process"
  /\ ProcessStep(c, DetProcessResults(Results(c)))

NextDet ==
  \E c \in Calls :
    \/ StartDet(c)
    \/ PickDet(c)
    \/ RunDet(c)
    \/ ProcessDet(c)

SpecDet == InitDet /\ [][NextDet]_vars

\* no profile's Run depends on what another profile of its wave writes
WaveIndependent(cfg) ==
  \A d \in SUBSET Profiles : \A p, q \in cfg.pick[d] :
    (p # q /\ cfg.writes[p]) => cfg.out[q][TRUE] = cfg.out[q][FALSE]

SpanResult(c) ==
  IF "gateway.scheduler.result" \in DOMAIN span[c]
    THEN span[c]["gateway.scheduler.result"][2]
    ELSE "unset"
TimesSelected(c, p) == Cardinality({i \in 1..Len(waves[c]) : p \in waves[c][i]})
EarlierWaves(c) == UNION {waves[c][i] : i \in 1..(Len(waves[c]) - 1)}

\* C11 as stated: a call that has returned has recorded its outcome on the
\* span: "scheduled" with the target pod's name and namespace when it
\* succeeded with a target pod, "failed" whenever it returned an error,
\* the NoProfilesRun error included.
C11_OutcomeOnSpan ==
  \A c \in Calls :
    Done(c) =>
      /\ ret[c].err # NoErr => SpanResult(c) = "failed"
      /\ (ret[c].err = NoErr /\ ret[c].result # Nil
            /\ ret[c].result.targetPod # "none") =>
           /\ SpanResult(c) = "scheduled"
           /\ span[c]["gateway.target_pod.name"] = <<"name", ret[c].result.targetPod>>
           /\ span[c]["gateway.target_pod.namespace"] =
                <<"namespace", ret[c].result.targetPod>>

\* C12: the Pick of the next round is called only when every profile of
\* the wave before has returned from Run and has its entry; the results
\* collection a Pick is given holds an entry for every profile of every
\* earlier wave and for no other, and no other plugin call is under way.
C12_RoundsSequential ==
  \A c \in Calls :
    /\ ((pc[c] = "pick" \/ "Pick" \in inflight[c]) /\ NonEmptyWaves(c) # {}) =>
         /\ todo[c] = {}
         /\ ranInWave[c] = LastWave(c)
         /\ \A p \in LastWave(c) :
              p \in DOMAIN Results(c) /\ Results(c)[p] = lastRun[c][p].res
    /\ "Pick" \in inflight[c] => inflight[c] = {"Pick"}
    /\ Len(waves[c]) > 0 => DOMAIN pickSaw[c] = EarlierWaves(c)

C12_Witness ==
  \E c \in Calls :
    /\ "Pick" \in inflight[c]
    /\ waves[c] = <<Profiles>>
    /\ Failed(c) = {"p1"}
    /\ DOMAIN Results(c) = Profiles

\* C13: within a call an entry of the results collection is never removed;
\* it changes only by a Run of that very profile, whose outcome replaces
\* it; and every Pick and ProcessResults is given the whole collection.
C13_ResultsAccumulate ==
  [][\A c \in Calls :
       pc[c] # "idle" =>
         /\ resultsRef'[c] = resultsRef[c]
         /\ \A p \in DOMAIN Results(c) :
              /\ p \in DOMAIN resStore'[resultsRef[c]]
              /\ resStore'[resultsRef[c]][p] # Results(c)[p] =>
                   runs'[c][p] = runs[c][p] + 1
         /\ \A p \in Profiles :
              runs'[c][p] = runs[c][p] + 1 =>
                /\ p \in DOMAIN resStore'[resultsRef[c]]
                /\ resStore'[resultsRef[c]][p] = lastRun'[c][p].res
         /\ waves'[c] # waves[c] => pickSaw'[c] = Results(c)
         /\ procCalls'[c] # procCalls[c] => procArg'[c] = Results(c)]_vars

\* a profile that failed in round 1 and was not selected again keeps its
\* nil entry next to the overwritten entry of one that was run twice
C13_Witness ==
  \E c \in Calls :
    /\ Done(c)
    /\ waves[c] = <<Profiles, {"p1"}, {}>>
    /\ runs[c]["p1"] = 2
    /\ Results(c)["p2"] = Nil
    /\ Results(c)["p1"] = [targetPod |-> "A"]
    /\ procArg[c] = Results(c)
    /\ pickSaw[c] = Results(c)

\* C14: a call has one cycle state, given to every Pick, Run and
\* ProcessResults of the call; what a plugin wrote stays in it, and it
\* changes only by the write of a plugin during a Run.
C14_OneCycleState ==
  /\ [](\A c \in Calls :
          pc[c] # "idle" =>
            (cycleState[c] # NoObj /\ seenCS[c] \subseteq {cycleState[c]}))
  /\ [][\A c \in Calls :
          pc[c] # "idle" =>
            /\ cycleState'[c] = cycleState[c]
            /\ \A k \in DOMAIN csStore[cycleState[c]] :
                 /\ k \in DOMAIN csStore'[cycleState[c]]
                 /\ csStore'[cycleState[c]][k] = csStore[cycleState[c]][k]
            /\ csStore'[cycleState[c]] # csStore[cycleState[c]] =>
                 /\ lastPlugin'[c] = "Run"
                 /\ runs'[c] # runs[c]]_vars

\* what a profile wrote in round 1 is there in round 2 and when
\* ProcessResults has been called
C14_Witness ==
  \E c \in Calls :
    /\ Done(c)
    /\ procCalls[c] = 1
    /\ waves[c] = <<{"p1"}, {"p2"}, {}>>
    /\ DOMAIN csStore[cycleState[c]] = {"p1"}
    /\ seenCS[c] = {cycleState[c]}

\* C15: every profile has been Run exactly as often as a Pick selected it,
\* less the Run of the current wave that is still to come: no Run is
\* repeated, whether it failed or not.
C15_NoRetries ==
  \A c \in Calls : \A p \in Profiles :
    /\ runs[c][p] =
         TimesSelected(c, p) - (IF pc[c] = "wave" /\ p \in todo[c] THEN 1 ELSE 0)
    /\ Len(runOrder[c]) = runs[c]["p1"] + runs[c]["p2"]

C15_Witness ==
  \E c \in Calls :
    /\ Done(c)
    /\ waves[c] = <<Profiles, {"p1"}, {}>>
    /\ runs[c]["p1"] = 2
    /\ runs[c]["p2"] = 1
    /\ Failed(c) = Profiles

\* C16: a call is past the loop only after a Pick that returned an empty
\* selection, which was its last Pick and the plugin call right before the
\* nothing-ran check or ProcessResults; Pick was called once more than
\* there were non-empty waves; inside the loop no Pick has returned empty,
\* ProcessResults has not been called and nothing has been returned.
C16_LoopEndsOnEmptyPick ==
  \A c \in Calls :
    /\ pc[c] \in {"process", "done"} =>
         /\ LastPick(c) = {}
         /\ Len(waves[c]) = Cardinality(NonEmptyWaves(c)) + 1
         /\ NonEmptyWaves(c) = 1..(Len(waves[c]) - 1)
         /\ lastPlugin[c] = (IF procCalls[c] = 0 THEN "Pick" ELSE "ProcessResults")
    /\ pc[c] \in {"pick", "wave"} =>
         /\ NonEmptyWaves(c) = 1..Len(waves[c])
         /\ procCalls[c] = 0
         /\ ret[c] = NoRet

C16_Witness ==
  \E c \in Calls :
    /\ pc[c] = "process"
    /\ waves[c] = <<{"p1"}, {"p1"}, {}>>
    /\ lastPlugin[c] = "Pick"

\* C17: a call that has started returns in the end, when every plugin call
\* returns and Pick returns an empty selection at some round; after the
\* first empty Pick there is no further Pick or Run; and a call returns
\* only after an empty Pick, however many rounds the handler asks for.
C17_Termination ==
  /\ \A c \in Calls : (pc[c] # "idle") ~> Done(c)
  /\ [][\A c \in Calls :
          (Len(waves[c]) > 0 /\ LastPick(c) = {}) =>
            (waves'[c] = waves[c] /\ runs'[c] = runs[c])]_vars
  /\ [](\A c \in Calls :
          Done(c) => \E i \in 1..Len(waves[c]) : waves[c][i] = {})

\* the handler asked for as many rounds as the bound lets it
C17_Witness ==
  \E c \in Calls :
    /\ Done(c)
    /\ Cardinality(NonEmptyWaves(c)) = MaxRounds
    /\ procCalls[c] = 1

\* C18: every Run is given the call's request and the caller's candidate
\* list as it is, the empty list too, and every Pick the whole configured
\* profile mapping, which never changes.
C18_ArgumentsUnchanged ==
  \A c \in Calls :
    /\ profiles = Profiles
    /\ pickArgs[c] = (IF Len(waves[c]) > 0 THEN {Profiles} ELSE {})
    /\ runArgs[c] =
         (IF runOrder[c] # <<>>
            THEN {[request |-> request[c], pods |-> candidatePods[c]]}
            ELSE {})
    /\ pc[c] # "idle" =>
         span[c]["gateway.scheduler.candidate_pods"] = <<"int", Len(candidatePods[c])>>

\* with an empty list the profiles are Run all the same
C18_Witness ==
  \E c \in Calls :
    /\ Done(c)
    /\ candidatePods[c] = <<>>
    /\ runs[c]["p1"] = 2
    /\ runArgs[c] = {[request |-> request[c], pods |-> <<>>]}
    /\ ret[c].err = NoErr

\* C19: at most one plugin call of a call is under way at any time, and it
\* is the one the call's position names: the profiles of a wave are Run
\* one after the other.
C19_OnePluginCallAtATime ==
  \A c \in Calls :
    /\ Cardinality(inflight[c]) <= 1
    /\ "Pick" \in inflight[c] => pc[c] = "pick"
    /\ "ProcessResults" \in inflight[c] => pc[c] = "process"
    /\ inflight[c] \cap Profiles # {} =>
         (pc[c] = "wave" /\ inflight[c] \subseteq todo[c])

\* the second profile of a wave is running after the first has returned
C19_Witness ==
  \E c \in Calls :
    /\ inflight[c] = {"p2"}
    /\ ranInWave[c] = {"p1"}
    /\ todo[c] = {"p2"}
    /\ "p1" \in DOMAIN Results(c)

====
